---------------------------- MODULE Spec2Model ----------------------------
(***************************************************************************)
(* Model of the signet transaction codec.                                  *)
(*                                                                         *)
(*   serialization.py  pack_seal / unpack_seal:                            *)
(*       Seal -> CSeal -> CBOR -> Ed25519 sign -> CBOR [msg, sig] -> zlib  *)
(*   crypt.py          secure_pack / secure_unpack:                        *)
(*       data -> JSON -> sign -> JSON envelope -> RSA-OAEP -> zlib -> b85  *)
(*   crypt.py          the four lru_cache(1) key getters                   *)
(*   models.py         Seal and its validators                             *)
(*                                                                         *)
(* Units.  An amount is an integer number of tenths of a minor currency    *)
(* unit (1/1000 of the currency), so round(amount * 100) is a rounding of  *)
(* amount / 10 to the nearest integer, ties to even as Python's round().   *)
(* An instant is an integer number of clock ticks, TicksPerSec ticks to    *)
(* the second, so int(ts.timestamp()) is a floor division.                 *)
(*                                                                         *)
(* Cryptography and codecs of the libraries are modelled by their          *)
(* contracts: a signature verifies exactly for the message and key it was  *)
(* made for, an OAEP ciphertext decrypts exactly when it is the one that   *)
(* encrypt produced, CBOR and JSON decode what they encoded.  The zlib     *)
(* container keeps its two header bytes as numbers, because its header     *)
(* check is arithmetic the payload's integrity depends on.                 *)
(***************************************************************************)
EXTENDS Integers, Naturals, Sequences, FiniteSets, TLC

\* ------------------------------------------------------------------------
\* Bounds of the model
\* ------------------------------------------------------------------------
\* Largest amount submitted, in tenths of a minor unit.
MaxAmount == 16
\* Largest timestamp submitted and last instant of the clock, in ticks.
MaxTs == 3
MaxNow == 3
\* Clock ticks per second (the sub-second resolution of datetime).
TicksPerSec == 2
\* Calls of a pack function in one run.
MaxPacks == 2
\* Largest version tag a foreign producer writes into an envelope.
MaxVersion == 1
\* Threads calling the key getters concurrently, and calls per thread.
NumThreads == 2
MaxCalls == 2

\* ------------------------------------------------------------------------
\* Dynamically typed values (what cbor2.loads / json.loads may hand back)
\* ------------------------------------------------------------------------
IntV(n) == [tag |-> "int", i |-> n, s |-> ""]
StrV(x) == [tag |-> "str", i |-> 0, s |-> x]
Missing == [tag |-> "missing", i |-> 0, s |-> ""]

\* ------------------------------------------------------------------------
\* Results of a call
\* ------------------------------------------------------------------------
Ok(v) == [kind |-> "ok", val |-> <<v>>, err |-> ""]
Err(e) == [kind |-> "err", val |-> <<>>, err |-> e]
NoResult == [kind |-> "none", val |-> <<>>, err |-> ""]


\* ------------------------------------------------------------------------
\* models.py: Seal
\* ------------------------------------------------------------------------
AccountLen == 10
BankCodeMin == 6

\* Field(gt=0.0), min_length / max_length of models.py lines 15-29.
SealFieldsValid(s) ==
    /\ s.amount > 0
    /\ Len(s.sender_account_number) = AccountLen
    /\ Len(s.receiver_account_number) = AccountLen
    /\ Len(s.sender_bank_code) >= BankCodeMin
    /\ Len(s.receiver_bank_code) >= BankCodeMin

\* check_timestamp_not_past: ts < datetime.now() raises ValueError.
TimestampNotPast(ts, clock) == ~(ts < clock)

\* Seal(...): the model's validation, run on every construction.
SealValid(s, clock) == SealFieldsValid(s) /\ TimestampNotPast(s.timestamp, clock)

MkSeal(a, ts) ==
    [amount |-> a, timestamp |-> ts,
     transaction_reference |-> "ref1234567890",
     sender_account_number |-> "0123456789",
     sender_name |-> "Alice B. Johnson",
     sender_bank_code |-> "123456",
     receiver_account_number |-> "9876543210",
     receiver_name |-> "Bob A. Smith",
     receiver_bank_code |-> "654321"]

\* The Seals the request layer can hand over at instant `clock`.
ValidSeals(clock) ==
    {s \in {MkSeal(a, ts) : a \in 1..MaxAmount, ts \in 0..MaxTs} : SealValid(s, clock)}

\* ------------------------------------------------------------------------
\* serialization.py: CSeal, seal_to_cseal, cseal_to_seal
\* ------------------------------------------------------------------------
TenthsPerMinor == 10

\* Python's round(): nearest integer, ties to the even one.
RoundHalfEven(n, d) ==
    LET q == n \div d
        r == n % d
    IN  IF 2 * r < d THEN q
        ELSE IF 2 * r > d THEN q + 1
        ELSE IF q % 2 = 0 THEN q ELSE q + 1

\* seal_to_cseal: the dict handed to CSeal(...), before its validation.
seal_to_cseal(s) ==
    [x |-> IntV(RoundHalfEven(s.amount, TenthsPerMinor)),
     t |-> IntV(s.timestamp \div TicksPerSec),
     r |-> StrV(s.transaction_reference),
     s |-> StrV(s.sender_account_number),
     n |-> StrV(s.sender_name),
     k |-> StrV(s.sender_bank_code),
     d |-> StrV(s.receiver_account_number),
     o |-> StrV(s.receiver_name),
     l |-> StrV(s.receiver_bank_code)]

IsInt(v) == v.tag = "int"
IsStr(v) == v.tag = "str"

\* A variant that keeps the Field(...) constraints and drops the required
\* fields without one; the validation property must tell it from CSealValid.
CSealConstraintsOnly(c) ==
    /\ IsInt(c.x) /\ c.x.i > 0
    /\ IsStr(c.s) /\ Len(c.s.s) = AccountLen
    /\ IsStr(c.k) /\ Len(c.k.s) >= BankCodeMin
    /\ IsStr(c.d) /\ Len(c.d.s) = AccountLen
    /\ IsStr(c.l) /\ Len(c.l.s) >= BankCodeMin

\* CSeal's field declarations: every field present and of its type,
\* x > 0, s and d of length 10, k and l of length at least 6.  (pydantic
\* also takes a numeral string for an int; no string here is a numeral.)
CSealValid(c) ==
    /\ IsInt(c.x) /\ c.x.i > 0
    /\ IsInt(c.t)
    /\ IsStr(c.r)
    /\ IsStr(c.s) /\ Len(c.s.s) = AccountLen
    /\ IsStr(c.n)
    /\ IsStr(c.k) /\ Len(c.k.s) >= BankCodeMin
    /\ IsStr(c.d) /\ Len(c.d.s) = AccountLen
    /\ IsStr(c.o)
    /\ IsStr(c.l) /\ Len(c.l.s) >= BankCodeMin

\* cseal_to_seal: the arguments handed to Seal(...), before its validation.
cseal_to_seal(c) ==
    [amount |-> c.x.i * TenthsPerMinor,
     timestamp |-> c.t.i * TicksPerSec,
     transaction_reference |-> c.r.s,
     sender_account_number |-> c.s.s,
     sender_name |-> c.n.s,
     sender_bank_code |-> c.k.s,
     receiver_account_number |-> c.d.s,
     receiver_name |-> c.o.s,
     receiver_bank_code |-> c.l.s]

\* ------------------------------------------------------------------------
\* Byte strings and the library codecs
\* ------------------------------------------------------------------------
\* A byte string is the encoding that produced it and the value it holds.
\* A Python dict is the sequence of its (key, value) pairs in insertion
\* order.  cseal.model_dump(): the fields that are there, in the order
\* CSeal declares them.
CSealKeys == <<"x", "t", "r", "s", "n", "k", "d", "o", "l">>
model_dump(c) ==
    SelectSeq([i \in 1..Len(CSealKeys) |-> <<CSealKeys[i], c[CSealKeys[i]]>>],
              LAMBDA p : p[2] # Missing)

\* Canonical CBOR writes the keys of a map shortest first and bytewise
\* within a length; the keys here are single letters.
KeyRank(k) ==
    CASE k = "d" -> 1 [] k = "k" -> 2 [] k = "l" -> 3 [] k = "n" -> 4
      [] k = "o" -> 5 [] k = "r" -> 6 [] k = "s" -> 7 [] k = "t" -> 8
      [] k = "x" -> 9

\* _cbor: cbor2.dumps(obj, canonical=True), obj a dict.
_cbor(obj) ==
    [enc |-> "cbor",
     val |-> SortSeq(obj, LAMBDA p, q : KeyRank(p[1]) < KeyRank(q[1]))]

\* _uncbor succeeds on the bytes that _cbor produced, and raises
\* otherwise.  The dict it returns is read by key; a key that is not in
\* it reads as Missing.
CborOk(b) == b.enc = "cbor"
_uncbor(b) ==
    [k \in {CSealKeys[i] : i \in 1..Len(CSealKeys)} |->
        IF \E j \in 1..Len(b.val) : b.val[j][1] = k
        THEN (CHOOSE p \in {b.val[j] : j \in 1..Len(b.val)} : p[1] = k)[2]
        ELSE Missing]

\* sign_message: Ed25519 is deterministic, the signature is a function of
\* the key and the message.
sign_message(priv, message) == [by |-> priv, over |-> message]

\* The public key that verifies what `priv` signs.
PublicOf(priv) ==
    CASE priv = "ed25519_private" -> "ed25519_public"
      [] priv = "stranger" -> "stranger_public"
      [] OTHER -> "none"

\* A signature made with no key of the system (flipped or forged bytes).
BadSig(message) == [by |-> "nobody", over |-> message]

\* n bytes that are no signature of anything, whatever n.
BytesV(n) == [tag |-> "bytes", i |-> n, s |-> ""]

\* What a value is to the library: a signature, a message (bytes of some
\* encoding), some other bytes, or no bytes at all.
IsSignature(v) == DOMAIN v = {"by", "over"}
IsBytes(v) == IsSignature(v) \/ "enc" \in DOMAIN v \/ v = BytesV(v.i)
IsEd25519PublicKey(pub) == pub \in {"ed25519_public", "stranger_public"}

\* public_key.verify(signature, message): returns when the signature is
\* that of the message under the key, raises InvalidSignature when it is
\* not (a signature of the wrong length included), TypeError when an
\* argument is no bytes, AttributeError when public_key is no key.
public_key_verify(pub, sig, message) ==
    IF ~IsEd25519PublicKey(pub) THEN "AttributeError"
    ELSE IF ~IsBytes(sig) \/ ~IsBytes(message) THEN "TypeError"
    ELSE IF ~IsSignature(sig) THEN "InvalidSignature"
    ELSE IF PublicOf(sig.by) = pub /\ sig.over = message THEN "returns"
    ELSE "InvalidSignature"

\* A variant that catches InvalidSignature only.
VerifyCatchingInvalidOnly(pub, message, sig) ==
    LET v == public_key_verify(pub, sig, message)
    IN  IF v = "returns" THEN Ok(TRUE)
        ELSE IF v = "InvalidSignature" THEN Ok(FALSE)
        ELSE Err(v)

\* The call verify_signature(public_key, message, signature):
\* try: public_key.verify(...); return True / except Exception: return False
VerifySignatureCall(pub, message, sig) ==
    IF public_key_verify(pub, sig, message) = "returns" THEN Ok(TRUE) ELSE Ok(FALSE)

\* verify_signature as the conditions of the unpack functions read it.
verify_signature(pub, message, sig) == VerifySignatureCall(pub, message, sig) = Ok(TRUE)

\* ------------------------------------------------------------------------
\* zlib container: CMF, FLG, deflate body, Adler-32
\* ------------------------------------------------------------------------
ZCmf == 120
\* FLG written by zlib.compress(level=9) and by zlib.compress() (level 6).
ZFlgBest == 218
ZFlgDefault == 156
ByteMax == 255

\* zlib.compress: `body` says whether the deflate stream still parses,
\* `pad` holds the unused bits after the end-of-block code in the last
\* deflate byte, `sumok` whether the stored Adler-32 is that of what the
\* stream inflates to.
Compress(data, flg) ==
    [cmf |-> ZCmf, flg |-> flg, body |-> "ok", data |-> data, pad |-> 0,
     sumok |-> TRUE]

\* inflate's header check (RFC 1950): method 8, window at most 32K, no preset
\* dictionary, CMF*256 + FLG a multiple of 31.
ZHeaderOk(z) ==
    /\ z.cmf % 16 = 8
    /\ z.cmf \div 16 <= 7
    /\ (z.flg \div 32) % 2 = 0
    /\ (z.cmf * 256 + z.flg) % 31 = 0

\* zlib.decompress returns z.data when this holds and raises otherwise.
DecompressOk(z) == ZHeaderOk(z) /\ z.body = "ok" /\ z.sumok

\* The streams that differ from z in one byte.  A changed deflate byte
\* leaves a stream that no longer parses, or one that inflates to other
\* data (`garbles`), with the stored Adler-32 then wrong or, Adler-32 not
\* being collision free, still right; a change of the padding bits changes
\* nothing that inflate reads.
FlipZ(z, garbles) ==
    {[z EXCEPT !.cmf = v] : v \in (0..ByteMax) \ {z.cmf}}
      \cup {[z EXCEPT !.flg = v] : v \in (0..ByteMax) \ {z.flg}}
      \cup {[z EXCEPT !.body = "invalid"]}
      \cup {[z EXCEPT !.data = g, !.sumok = b] : g \in garbles, b \in BOOLEAN}
      \cup {[z EXCEPT !.pad = 1]}
      \cup {[z EXCEPT !.sumok = FALSE]}

\* ------------------------------------------------------------------------
\* serialization.py: the envelope of pack_seal
\* ------------------------------------------------------------------------
\* inner = [msg, sig].  `form` is what _uncbor hands back for the bytes: a
\* two-element list, a longer list that leads with a version tag `ver`,
\* something else, or nothing (bytes that are no CBOR).
Envelope(msg, sig) == [form |-> "array2", ver |-> 0, msg |-> msg, sig |-> sig]

\* isinstance(inner, list) and len(inner) == 2
EnvelopeOk(inner) == inner.form = "array2"

\* Inner bytes other than e that a changed stream can inflate to: bytes
\* that are no CBOR, CBOR that is no two-element list, and a list whose
\* message or signature differs.
GarbledEnvelopes(e) ==
    {[e EXCEPT !.form = "notcbor"], [e EXCEPT !.form = "other"],
     [e EXCEPT !.msg = [enc |-> "raw", val |-> e.msg.val]],
     [e EXCEPT !.sig = BadSig(e.msg)]}

\* ------------------------------------------------------------------------
\* crypt.py: JSON message, envelope and RSA-OAEP of secure_pack
\* ------------------------------------------------------------------------
\* A dict is the sequence of its (key, value) pairs in insertion order.
\* model_dump_json(by_alias=True): the Seal's fields under their aliases.
ModelPairs(s) ==
    << <<"amount", IntV(s.amount)>>,
       <<"timestamp", IntV(s.timestamp)>>,
       <<"transactionReference", StrV(s.transaction_reference)>>,
       <<"senderAccountNumber", StrV(s.sender_account_number)>>,
       <<"senderName", StrV(s.sender_name)>>,
       <<"senderBankCode", StrV(s.sender_bank_code)>>,
       <<"receiverAccountNumber", StrV(s.receiver_account_number)>>,
       <<"receiverName", StrV(s.receiver_name)>>,
       <<"receiverBankCode", StrV(s.receiver_bank_code)>> >>

RECURSIVE Digits(_)
Digits(n) == IF n < 10 THEN 1 ELSE 1 + Digits(n \div 10)

\* Length of repr(amount): integer part, point, fraction without its
\* trailing zeros (at least one digit).
AmountUnit == 100 * TenthsPerMinor
AmountReprLen(a) ==
    LET f == a % AmountUnit
    IN  Digits(a \div AmountUnit) + 1 +
        (IF f % 10 # 0 THEN 3 ELSE IF f % 100 # 0 THEN 2 ELSE 1)

\* Length of the ISO 8601 text of an aware UTC datetime; microseconds are
\* written only when they are not zero.
IsoLen == 20
IsoFractionLen == 7
TimestampReprLen(ts) == IsoLen + (IF ts % TicksPerSec = 0 THEN 0 ELSE IsoFractionLen)

\* Characters of the Seal's JSON text that are no field value: the nine
\* aliases with their quotes and colons, the braces, the commas, and the
\* quotes of the eight string values.
SealJsonFixed == 180

SealJsonLen(s) ==
    SealJsonFixed + AmountReprLen(s.amount) + TimestampReprLen(s.timestamp)
      + Len(s.transaction_reference) + Len(s.sender_account_number)
      + Len(s.sender_name) + Len(s.sender_bank_code)
      + Len(s.receiver_account_number) + Len(s.receiver_name)
      + Len(s.receiver_bank_code)

\* json.dumps(data, separators=(",", ":")) of a dict of small integers.
RECURSIVE PairsLen(_)
PairsLen(ps) ==
    IF ps = <<>> THEN 0
    ELSE Len(Head(ps)[1]) + 3 + Digits(Head(ps)[2].i)
           + (IF Len(ps) > 1 THEN 1 ELSE 0) + PairsLen(Tail(ps))

DictJsonLen(ps) == 2 + PairsLen(ps)

\* What the caller holds: a Seal (a BaseModel) or a plain dict.
ModelInput(s) == [kind |-> "model", obj |-> s]
DictInput(ps) == [kind |-> "dict", pairs |-> ps]

\* Step 1 of secure_pack: the message bytes, with their length.
Serialize(d) ==
    IF d.kind = "dict"
    THEN [enc |-> "json", val |-> d.pairs, len |-> DictJsonLen(d.pairs)]
    ELSE [enc |-> "json", val |-> ModelPairs(d.obj), len |-> SealJsonLen(d.obj)]

\* json.loads(message): a dict, which does not remember the order of its keys.
JsonOk(b) == b.enc = "json"
JsonLoads(b) == {b.val[i] : i \in 1..Len(b.val)}

\* base64.b85encode: five characters for every four bytes, r + 1 for a last
\* group of r bytes.
B85Len(n) == 5 * (n \div 4) + (IF n % 4 = 0 THEN 0 ELSE (n % 4) + 1)

SigLen == 64
\* {"msg":" ... "," sig":" ... "}
EnvelopePunctuation == 19
EnvelopeLen(message) == EnvelopePunctuation + B85Len(message.len) + B85Len(SigLen)

\* Step 3 of secure_pack: the JSON object with the keys "msg" and "sig";
\* `ver` is the version tag under a further key, 0 when there is none.
JsonEnvelope(message, sig) ==
    [form |-> "object", ver |-> 0, msg |-> message, sig |-> sig,
     len |-> EnvelopeLen(message)]

\* RSA-OAEP with SHA-256 under the 2048-bit key of generate_rsa_keypair
\* takes at most k - 2*hLen - 2 bytes.
RsaKeyBytes == 256
Sha256Len == 32
OaepCapacity == RsaKeyBytes - 2 * Sha256Len - 2

\* rsa_encrypt: OAEP draws a random seed, so the ciphertext is a function
\* of the key, the plaintext and the seed.
EncryptOk(plain) == plain.len <= OaepCapacity
rsa_encrypt(pub, plain, seed) == [enc |-> "oaep", to |-> pub, seed |-> seed, plain |-> plain]

PrivateOf(pub) == IF pub = "rsa_public" THEN "rsa_private" ELSE "none"

\* rsa_decrypt raises unless the bytes are a ciphertext made for this key.
DecryptOk(priv, c) == c.enc = "oaep" /\ PrivateOf(c.to) = priv
rsa_decrypt(priv, c) == c.plain

GarbledCiphertexts(c) == {[c EXCEPT !.enc = "garbled"]}

\* base64.b85encode(zlib.compress(ciphertext)): `b85` says whether the text
\* still decodes, `tail` how far its last character is from the one the
\* encoder wrote, `z` the bytes it decodes to.
B85(z) == [b85 |-> "ok", tail |-> 0, z |-> z]
B85Ok(b) == b.b85 = "ok"

\* The class of the exception behind each failure.  JSONDecodeError and
\* pydantic's ValidationError are subclasses of ValueError but are raised
\* as themselves; rsa_decrypt, b85decode and the explicit raises of the
\* unpack functions raise ValueError itself.
ExcClass(e) ==
    CASE e \in {"ValueError", "ValueError: decompression failed",
                "ValueError: malformed envelope",
                "ValueError: signature verification failed",
                "ValueError: Signature verification failed",
                "ValueError: Encryption failed",
                "ValueError: Decryption failed"} -> "ValueError"
      [] OTHER -> e

\* ------------------------------------------------------------------------
\* State
\* ------------------------------------------------------------------------
VARIABLES
    now,      \* the clock, in ticks
    data,     \* what the caller holds and packs: a Seal or a dict
    pc,       \* the statement the running call is at, "idle" between calls
    ops,      \* the steps of the running (or last) call, each with its outcome
    work,     \* the locals of the running (or last) call
    ret,      \* what the last finished call returned or raised
    outs,     \* the outputs of the pack calls so far
    wire,     \* the bytes handed to the running (or last) unpack call
    got,      \* per pack output, the outcome of unpacking it as it is
    flips,    \* the tampered payloads presented so far
    rng,      \* the random seeds drawn so far
    cache,    \* lru_cache(1) of each key getter: 0, or the cached key object
    loads,    \* how often each getter's PEM file was read and parsed
    tpc,      \* per thread, where its getter call is
    tget,     \* per thread, the getter it calls
    tkey,     \* per thread, the key object it loaded
    tret,     \* per thread, the key objects its calls returned
    tcalls,   \* per thread, the getter calls it has made
    table     \* the rows of the fintech table

codec == <<now, data, pc, ops, work, ret, outs, wire, got, flips, rng>>
threads == <<tpc, tget, tkey, tret, tcalls>>
vars == <<codec, cache, loads, threads, table>>

Getters == {"rsa_private", "rsa_public", "ed25519_private", "ed25519_public"}
Threads == 1..NumThreads

NoWork == [cseal |-> Missing, msg |-> Missing, sig |-> Missing, inner |-> Missing]
NoWire == [src |-> 0, how |-> "none", fn |-> "none", blob |-> Missing]

UnpackFns == {"unpack_seal", "secure_unpack"}
PackFns == {"pack_seal", "secure_pack"}

\* ------------------------------------------------------------------------
\* Control flow shared by the calls
\* ------------------------------------------------------------------------
NoRet == [fn |-> "none", src |-> 0, how |-> "none", res |-> NoResult]

\* A pack call begins.
Begin(fn, first) ==
    /\ pc = "idle"
    /\ pc' = first
    /\ ops' = <<>>
    /\ work' = NoWork
    /\ ret' = [NoRet EXCEPT !.fn = fn]
    /\ UNCHANGED wire

\* An unpack call begins on the bytes w.
BeginUnpack(w, first) ==
    /\ pc = "idle"
    /\ pc' = first
    /\ ops' = <<>>
    /\ work' = NoWork
    /\ wire' = w
    /\ ret' = [fn |-> w.fn, src |-> w.src, how |-> w.how, res |-> NoResult]

\* The call is over.  The outcome of unpacking a pack output as it is
\* is kept beside that output.
Done(res) ==
    /\ pc' = "idle"
    /\ ret' = [ret EXCEPT !.res = res]
    /\ wire' = NoWire
    /\ got' = IF ret.fn \in UnpackFns /\ wire.how = "asis"
              THEN [got EXCEPT ![wire.src] = res]
              ELSE got

\* A statement that ran to its end: control moves to the next one.
Pass(op, next) ==
    /\ pc' = next
    /\ ops' = Append(ops, [op |-> op, ok |-> TRUE])
    /\ UNCHANGED <<ret, got, wire>>

\* A variant that logs the exception and returns what the locals hold; the
\* gate property must tell it from Raise.
Swallow(op, e) ==
    /\ ops' = Append(ops, [op |-> op, ok |-> FALSE])
    /\ Done(Ok(work.cseal))

\* A statement that raised: the exception leaves the call, which returns
\* nothing.
Raise(op, e) ==
    /\ ops' = Append(ops, [op |-> op, ok |-> FALSE])
    /\ Done(Err(e))

\* The last statement: `return v`.
Return(op, v) ==
    /\ ops' = Append(ops, [op |-> op, ok |-> TRUE])
    /\ Done(Ok(v))

\* A cached getter called from the codec's thread: the first call reads
\* the PEM file and caches the key, later calls are cache hits.
CallGetter(g) ==
    IF cache[g] = 0
    THEN /\ loads' = [loads EXCEPT ![g] = @ + 1]
         /\ cache' = [cache EXCEPT ![g] = loads[g] + 1]
    ELSE UNCHANGED <<cache, loads>>

\* ------------------------------------------------------------------------
\* serialization.py: pack_seal
\* ------------------------------------------------------------------------
PackSealStart ==
    /\ Len(outs) < MaxPacks
    /\ data.kind = "model"
    /\ Begin("pack_seal", "ps_cseal")
    /\ UNCHANGED <<now, data, outs, got, flips, rng, cache, loads, threads, table>>

\* cseal = seal_to_cseal(seal); CSeal(...) validates its fields.
PackSealToCSeal ==
    /\ pc = "ps_cseal"
    /\ LET c == seal_to_cseal(data.obj)
       IN  IF CSealValid(c)
           THEN Pass("to_cseal", "ps_cbor") /\ work' = [work EXCEPT !.cseal = c]
           ELSE Raise("to_cseal", "ValidationError") /\ UNCHANGED work
    /\ UNCHANGED <<now, data, outs, flips, rng, cache, loads, threads, table>>

\* msg = _cbor(cseal.model_dump())
PackSealCbor ==
    /\ pc = "ps_cbor"
    /\ Pass("cbor_msg", "ps_sign")
    /\ work' = [work EXCEPT !.msg = _cbor(model_dump(work.cseal))]
    /\ UNCHANGED <<now, data, outs, flips, rng, cache, loads, threads, table>>

\* sig = sign_message(get_ed25519_private_key(), msg)
PackSealSign ==
    /\ pc = "ps_sign"
    /\ CallGetter("ed25519_private")
    /\ Pass("sign", "ps_env")
    /\ work' = [work EXCEPT !.sig = sign_message("ed25519_private", work.msg)]
    /\ UNCHANGED <<now, data, outs, flips, rng, threads, table>>

\* inner = [msg, sig]; inner_bytes = _cbor(inner)
PackSealEnvelope ==
    /\ pc = "ps_env"
    /\ Pass("cbor_env", "ps_zip")
    /\ work' = [work EXCEPT !.inner = Envelope(work.msg, work.sig)]
    /\ UNCHANGED <<now, data, outs, flips, rng, cache, loads, threads, table>>

\* return zlib.compress(inner_bytes, level=9)
PackSealCompress ==
    /\ pc = "ps_zip"
    /\ LET blob == Compress(work.inner, ZFlgBest)
       IN  /\ Return("compress", blob)
           /\ outs' = Append(outs, [fn |-> "pack_seal", input |-> data, blob |-> blob])
    /\ UNCHANGED <<now, data, work, flips, rng, cache, loads, threads, table>>

\* ------------------------------------------------------------------------
\* serialization.py: unpack_seal
\* ------------------------------------------------------------------------
\* unpack_seal(blob), called on a pack_seal output as it is.
UnpackSealStart ==
    /\ \E i \in 1..Len(outs) :
          /\ outs[i].fn = "pack_seal"
          /\ BeginUnpack([src |-> i, how |-> "asis", fn |-> "unpack_seal",
                          blob |-> outs[i].blob], "us_unzip")
    /\ UNCHANGED <<now, data, outs, got, flips, rng, cache, loads, threads, table>>

\* inner_bytes = zlib.decompress(blob)
UnpackSealDecompress ==
    /\ pc = "us_unzip"
    /\ IF DecompressOk(wire.blob)
       THEN /\ Pass("decompress", "us_env")
            /\ work' = [work EXCEPT !.inner = wire.blob.data]
       ELSE /\ Raise("decompress", "ValueError: decompression failed")
            /\ UNCHANGED work
    /\ UNCHANGED <<now, data, outs, flips, rng, cache, loads, threads, table>>

\* inner = _uncbor(inner_bytes); a two-element list, or "malformed envelope"
UnpackSealEnvelope ==
    /\ pc = "us_env"
    /\ IF work.inner.form = "notcbor"
       THEN Raise("uncbor_env", "CBORDecodeError") /\ UNCHANGED work
       ELSE IF ~EnvelopeOk(work.inner)
       THEN Raise("uncbor_env", "ValueError: malformed envelope") /\ UNCHANGED work
       ELSE /\ Pass("uncbor_env", "us_verify")
            /\ work' = [work EXCEPT !.msg = work.inner.msg, !.sig = work.inner.sig]
    /\ UNCHANGED <<now, data, outs, flips, rng, cache, loads, threads, table>>

\* A variant that computes the verdict and goes on to decode whatever it
\* is; the ordering property must tell it from UnpackSealVerify.
VerifyUnchecked ==
    /\ pc = "us_verify"
    /\ CallGetter("ed25519_public")
    /\ pc' = "us_decode"
    /\ ops' = Append(ops, [op |-> "verify",
                            ok |-> verify_signature("ed25519_public", work.msg, work.sig)])
    /\ UNCHANGED <<now, data, work, ret, outs, wire, got, flips, rng, threads, table>>

\* if not verify_signature(get_ed25519_public_key(), msg, sig): raise
UnpackSealVerify ==
    /\ pc = "us_verify"
    /\ CallGetter("ed25519_public")
    /\ IF verify_signature("ed25519_public", work.msg, work.sig)
       THEN Pass("verify", "us_decode")
       ELSE Raise("verify", "ValueError: signature verification failed")
    /\ UNCHANGED <<now, data, work, outs, flips, rng, threads, table>>

\* cseal_dict = _uncbor(msg)
UnpackSealDecode ==
    /\ pc = "us_decode"
    /\ IF CborOk(work.msg)
       THEN /\ Pass("decode_msg", "us_validate")
            /\ work' = [work EXCEPT !.cseal = _uncbor(work.msg)]
       ELSE /\ Raise("decode_msg", "CBORDecodeError")
            /\ UNCHANGED work
    /\ UNCHANGED <<now, data, outs, flips, rng, cache, loads, threads, table>>

\* cseal = CSeal.model_validate(cseal_dict)
UnpackSealValidate ==
    /\ pc = "us_validate"
    /\ IF CSealValid(work.cseal)
       THEN Pass("validate", "us_seal")
       ELSE Raise("validate", "ValidationError")
    /\ UNCHANGED <<now, data, work, outs, flips, rng, cache, loads, threads, table>>

\* return cseal_to_seal(cseal): Seal(...) runs the validators of models.py,
\* check_timestamp_not_past against the clock of this instant among them.
UnpackSealToSeal ==
    /\ pc = "us_seal"
    /\ LET s == cseal_to_seal(work.cseal)
       IN  IF SealValid(s, now)
           THEN Return("to_seal", s)
           ELSE Raise("to_seal", "ValidationError")
    /\ UNCHANGED <<now, data, work, outs, flips, rng, cache, loads, threads, table>>

\* ------------------------------------------------------------------------
\* crypt.py: secure_pack
\* ------------------------------------------------------------------------
SecurePackStart ==
    /\ Len(outs) < MaxPacks
    /\ data.kind \in {"model", "dict"}
    /\ Begin("secure_pack", "sp_json")
    /\ UNCHANGED <<now, data, outs, got, flips, rng, cache, loads, threads, table>>

\* 1. message = json.dumps(data) or data.model_dump_json(by_alias=True)
SecurePackSerialize ==
    /\ pc = "sp_json"
    /\ Pass("serialize", "sp_sign")
    /\ work' = [work EXCEPT !.msg = Serialize(data)]
    /\ UNCHANGED <<now, data, outs, flips, rng, cache, loads, threads, table>>

\* 2. sig = sign_message(get_ed25519_private_key(), message)
SecurePackSign ==
    /\ pc = "sp_sign"
    /\ CallGetter("ed25519_private")
    /\ Pass("sign", "sp_bundle")
    /\ work' = [work EXCEPT !.sig = sign_message("ed25519_private", work.msg)]
    /\ UNCHANGED <<now, data, outs, flips, rng, threads, table>>

\* 3. envelope = json.dumps({"msg": b85(message), "sig": b85(sig)})
SecurePackBundle ==
    /\ pc = "sp_bundle"
    /\ Pass("bundle", "sp_encrypt")
    /\ work' = [work EXCEPT !.inner = JsonEnvelope(work.msg, work.sig)]
    /\ UNCHANGED <<now, data, outs, flips, rng, cache, loads, threads, table>>

\* 4. ciphertext = rsa_encrypt(get_rsa_public_key(), envelope)
SecurePackEncrypt ==
    /\ pc = "sp_encrypt"
    /\ CallGetter("rsa_public")
    /\ IF EncryptOk(work.inner)
       THEN /\ Pass("encrypt", "sp_zip")
            /\ work' = [work EXCEPT !.inner = rsa_encrypt("rsa_public", work.inner, rng + 1)]
            /\ rng' = rng + 1
       ELSE /\ Raise("encrypt", "ValueError: Encryption failed")
            /\ UNCHANGED <<work, rng>>
    /\ UNCHANGED <<now, data, outs, flips, threads, table>>

\* 5. zlib.compress(ciphertext)
SecurePackCompress ==
    /\ pc = "sp_zip"
    /\ Pass("compress", "sp_b85")
    /\ work' = [work EXCEPT !.inner = Compress(work.inner, ZFlgDefault)]
    /\ UNCHANGED <<now, data, outs, flips, rng, cache, loads, threads, table>>

\* 5. return base64.b85encode(...)
SecurePackEncode ==
    /\ pc = "sp_b85"
    /\ LET blob == B85(work.inner)
       IN  /\ Return("b85encode", blob)
           /\ outs' = Append(outs, [fn |-> "secure_pack", input |-> data, blob |-> blob])
    /\ UNCHANGED <<now, data, work, flips, rng, cache, loads, threads, table>>

\* ------------------------------------------------------------------------
\* crypt.py: secure_unpack
\* ------------------------------------------------------------------------
\* secure_unpack(encoded), called on a secure_pack output as it is.
SecureUnpackStart ==
    /\ \E i \in 1..Len(outs) :
          /\ outs[i].fn = "secure_pack"
          /\ BeginUnpack([src |-> i, how |-> "asis", fn |-> "secure_unpack",
                          blob |-> outs[i].blob], "su_b85")
    /\ UNCHANGED <<now, data, outs, got, flips, rng, cache, loads, threads, table>>

\* 1. base64.b85decode(encoded)
SecureUnpackDecode85 ==
    /\ pc = "su_b85"
    /\ IF B85Ok(wire.blob)
       THEN /\ Pass("b85decode", "su_unzip")
            /\ work' = [work EXCEPT !.inner = wire.blob.z]
       ELSE /\ Raise("b85decode", "ValueError")
            /\ UNCHANGED work
    /\ UNCHANGED <<now, data, outs, flips, rng, cache, loads, threads, table>>

\* 1. ciphertext = zlib.decompress(...)
SecureUnpackDecompress ==
    /\ pc = "su_unzip"
    /\ IF DecompressOk(work.inner)
       THEN /\ Pass("decompress", "su_decrypt")
            /\ work' = [work EXCEPT !.inner = work.inner.data]
       ELSE /\ Raise("decompress", "zlib.error")
            /\ UNCHANGED work
    /\ UNCHANGED <<now, data, outs, flips, rng, cache, loads, threads, table>>

\* 2. envelope = rsa_decrypt(get_rsa_private_key(), ciphertext)
SecureUnpackDecrypt ==
    /\ pc = "su_decrypt"
    /\ CallGetter("rsa_private")
    /\ IF DecryptOk("rsa_private", work.inner)
       THEN /\ Pass("decrypt", "su_env")
            /\ work' = [work EXCEPT !.inner = rsa_decrypt("rsa_private", work.inner)]
       ELSE /\ Raise("decrypt", "ValueError: Decryption failed")
            /\ UNCHANGED work
    /\ UNCHANGED <<now, data, outs, flips, rng, threads, table>>

\* 3. obj = json.loads(envelope); obj["msg"], obj["sig"]; other keys of
\* the object are not looked at.
SecureUnpackEnvelope ==
    /\ pc = "su_env"
    /\ IF work.inner.form = "object"
       THEN /\ Pass("parse_env", "su_verify")
            /\ work' = [work EXCEPT !.msg = work.inner.msg, !.sig = work.inner.sig]
       ELSE /\ Raise("parse_env", "JSONDecodeError")
            /\ UNCHANGED work
    /\ UNCHANGED <<now, data, outs, flips, rng, cache, loads, threads, table>>

\* 4. if not verify_signature(get_ed25519_public_key(), message, sig): raise
SecureUnpackVerify ==
    /\ pc = "su_verify"
    /\ CallGetter("ed25519_public")
    /\ IF verify_signature("ed25519_public", work.msg, work.sig)
       THEN Pass("verify", "su_decode")
       ELSE Raise("verify", "ValueError: Signature verification failed")
    /\ UNCHANGED <<now, data, work, outs, flips, rng, threads, table>>

\* 5. return json.loads(message)
SecureUnpackLoads ==
    /\ pc = "su_decode"
    /\ IF JsonOk(work.msg)
       THEN Return("decode_msg", JsonLoads(work.msg))
       ELSE Raise("decode_msg", "JSONDecodeError")
    /\ UNCHANGED <<now, data, work, outs, flips, rng, cache, loads, threads, table>>

\* ------------------------------------------------------------------------
\* Payloads received from elsewhere
\* ------------------------------------------------------------------------
\* The dicts a caller hands to secure_pack.
SmallDicts ==
    { << <<"a", IntV(1)>> >>,
      << <<"a", IntV(1)>>, <<"b", IntV(2)>> >>,
      << <<"b", IntV(2)>>, <<"a", IntV(1)>> >> }

\* Who may have signed a received message, and for whom it was encrypted.
Signers == {"ed25519_private", "stranger"}
Recipients == {"rsa_public", "other_public"}

GoodDict == seal_to_cseal(MkSeal(MaxAmount, MaxTs))

\* Decoded records that break one declaration of CSeal each.
BadDicts ==
    {[GoodDict EXCEPT !.x = v] : v \in {IntV(0), IntV(0 - 1), StrV("ten"), Missing}}
      \cup {[GoodDict EXCEPT !.t = v] : v \in {StrV("yesterday"), Missing}}
      \cup {[GoodDict EXCEPT !.s = v] : v \in {StrV("012345678"), StrV("01234567890"), Missing}}
      \cup {[GoodDict EXCEPT !.d = v] : v \in {StrV("987654321"), StrV("98765432100"), Missing}}
      \cup {[GoodDict EXCEPT !.k = v] : v \in {StrV("12345"), Missing}}
      \cup {[GoodDict EXCEPT !.l = v] : v \in {StrV("54321"), Missing}}
      \cup {[GoodDict EXCEPT !.r = Missing], [GoodDict EXCEPT !.n = Missing],
            [GoodDict EXCEPT !.o = Missing]}

\* Payloads in the format of pack_seal: a signed message in an envelope,
\* written by a producer of this or of another version of the format, or
\* by a stranger; and bytes that are no zlib stream, or no CBOR.
ReceivedSealBlobs ==
    {Compress([form |-> IF v = 0 THEN "array2" ELSE "array3", ver |-> v,
               msg |-> m, sig |-> sign_message(k, m)], ZFlgBest) :
        v \in 0..MaxVersion, k \in Signers,
        m \in {_cbor(model_dump(d)) : d \in BadDicts \cup {GoodDict}}
                \cup {[enc |-> "raw", val |-> model_dump(GoodDict)]}}
      \cup {Compress(Envelope(_cbor(model_dump(GoodDict)), s), ZFlgBest) :
               s \in {BytesV(SigLen - 1), IntV(7)}}
      \cup {[Compress(Envelope(_cbor(model_dump(GoodDict)), BadSig(_cbor(model_dump(GoodDict)))), ZFlgBest)
               EXCEPT !.body = "invalid"],
            Compress([Envelope(_cbor(model_dump(GoodDict)), BadSig(_cbor(model_dump(GoodDict))))
                        EXCEPT !.form = "notcbor"], ZFlgBest)}

\* Payloads in the format of secure_pack.
ReceivedSecureBlobs ==
    LET envs == {[JsonEnvelope(m, sign_message(k, m)) EXCEPT !.ver = v] :
                    v \in 0..MaxVersion, k \in Signers,
                    m \in {Serialize(DictInput(ps)) : ps \in SmallDicts}
                            \cup {[enc |-> "raw", val |-> <<>>, len |-> 0]}}
        m0 == Serialize(DictInput(<< <<"a", IntV(1)>> >>))
        plain == JsonEnvelope(m0, sign_message("ed25519_private", m0))
    IN  {B85(Compress(rsa_encrypt(r, e, 0), ZFlgDefault)) : r \in Recipients, e \in envs}
          \cup {[B85(Compress(rsa_encrypt("rsa_public", plain, 0), ZFlgDefault))
                   EXCEPT !.b85 = "invalid"],
                B85([Compress(rsa_encrypt("rsa_public", plain, 0), ZFlgDefault)
                       EXCEPT !.body = "invalid"]),
                B85(Compress(rsa_encrypt("rsa_public",
                       [plain EXCEPT !.form = "notjson"], 0), ZFlgDefault))}

ReceivedInput(fn, blob) == [kind |-> "payload", fn |-> fn, blob |-> blob]

\* unpack_seal(blob) on a received payload.
UnpackSealReceived ==
    /\ data.kind = "payload"
    /\ data.fn = "unpack_seal"
    /\ BeginUnpack([src |-> 0, how |-> "foreign", fn |-> "unpack_seal",
                    blob |-> data.blob], "us_unzip")
    /\ UNCHANGED <<now, data, outs, got, flips, rng, cache, loads, threads, table>>

\* secure_unpack(encoded) on a received payload.
SecureUnpackReceived ==
    /\ data.kind = "payload"
    /\ data.fn = "secure_unpack"
    /\ BeginUnpack([src |-> 0, how |-> "foreign", fn |-> "secure_unpack",
                    blob |-> data.blob], "su_b85")
    /\ UNCHANGED <<now, data, outs, got, flips, rng, cache, loads, threads, table>>

\* ------------------------------------------------------------------------
\* Payloads with one byte changed
\* ------------------------------------------------------------------------
MaxFlips == 1

\* unpack_seal(blob) on a pack_seal output with one byte changed.
UnpackSealFlipped ==
    /\ flips < MaxFlips
    /\ \E i \in 1..Len(outs) :
          /\ outs[i].fn = "pack_seal"
          /\ \E z \in FlipZ(outs[i].blob, GarbledEnvelopes(outs[i].blob.data)) :
                BeginUnpack([src |-> i, how |-> "flip", fn |-> "unpack_seal",
                             blob |-> z], "us_unzip")
    /\ flips' = flips + 1
    /\ UNCHANGED <<now, data, outs, got, rng, cache, loads, threads, table>>

B85Radix == 85

\* The last base-85 group of a secure_pack output holds three bytes in
\* four characters; b85decode pads it with one "~" (digit 84) and drops
\* the last decoded byte.  With the last character moved by `delta` and
\* d the digit that b85encode dropped, the three bytes come out the same
\* when the dropped byte absorbs the difference.
B85TailSame(d, delta) ==
    LET low == (B85Radix - 1) - d + B85Radix * delta
    IN  low >= 0 /\ low <= ByteMax

\* The zlib streams that b85decode yields with one character changed in a
\* group before the last: the bytes of one group change together, so a
\* header byte never changes alone.
FlipGroup(z, garbles) ==
    {[z EXCEPT !.cmf = v, !.body = "invalid"] : v \in (0..ByteMax) \ {z.cmf}}
      \cup {[z EXCEPT !.flg = v, !.body = "invalid"] : v \in (0..ByteMax) \ {z.flg}}
      \cup {[z EXCEPT !.body = "invalid"]}
      \cup {[z EXCEPT !.data = g, !.sumok = b] : g \in garbles, b \in BOOLEAN}
      \cup {[z EXCEPT !.sumok = FALSE]}

\* The texts that differ from b in one character: one outside the
\* alphabet or a group above 2^32 (b85decode raises), one in a group
\* before the last, and one in the last group, whose bytes are the end of
\* the Adler-32.
FlipB85(b) ==
    {[b EXCEPT !.b85 = "invalid"]}
      \cup {[b EXCEPT !.z = z] : z \in FlipGroup(b.z, GarbledCiphertexts(b.z.data))}
      \cup {[b EXCEPT !.tail = delta, !.z.sumok = B85TailSame(d, delta)] :
               d \in 0..(B85Radix - 1),
               delta \in ((1 - B85Radix)..(B85Radix - 1)) \ {0}}

\* secure_unpack(encoded) on a secure_pack output with one character changed.
SecureUnpackFlipped ==
    /\ flips < MaxFlips
    /\ \E i \in 1..Len(outs) :
          /\ outs[i].fn = "secure_pack"
          /\ \E b \in FlipB85(outs[i].blob) :
                BeginUnpack([src |-> i, how |-> "flip", fn |-> "secure_unpack",
                             blob |-> b], "su_b85")
    /\ flips' = flips + 1
    /\ UNCHANGED <<now, data, outs, got, rng, cache, loads, threads, table>>

\* ------------------------------------------------------------------------
\* crypt.py: the lru_cache(1) key getters, called from several threads
\* ------------------------------------------------------------------------
\* A thread calls getter g.  The cache lookup is one step: a hit returns
\* the cached key object, a miss goes on to call the wrapped function.
KeyCall(t, g) ==
    /\ tpc[t] = "idle"
    /\ tcalls[t] < MaxCalls
    /\ tcalls' = [tcalls EXCEPT ![t] = @ + 1]
    /\ tget' = [tget EXCEPT ![t] = g]
    /\ IF cache[g] # 0
       THEN /\ tret' = [tret EXCEPT ![t] = Append(@, <<g, cache[g]>>)]
            /\ UNCHANGED tpc
       ELSE /\ tpc' = [tpc EXCEPT ![t] = "load"]
            /\ UNCHANGED tret
    /\ UNCHANGED <<table, codec, cache, loads, tkey>>

\* The wrapped function: open the PEM file, read it, parse the key.  The
\* result is a new key object.
KeyLoad(t) ==
    /\ tpc[t] = "load"
    /\ loads' = [loads EXCEPT ![tget[t]] = @ + 1]
    /\ tkey' = [tkey EXCEPT ![t] = loads[tget[t]] + 1]
    /\ tpc' = [tpc EXCEPT ![t] = "store"]
    /\ UNCHANGED <<table, codec, cache, tget, tret, tcalls>>

\* Back in the wrapper: the result is cached unless another thread cached
\* one in the meantime, and the caller gets the key it loaded itself.
KeyStore(t) ==
    /\ tpc[t] = "store"
    /\ cache' = IF cache[tget[t]] = 0 THEN [cache EXCEPT ![tget[t]] = tkey[t]] ELSE cache
    /\ tret' = [tret EXCEPT ![t] = Append(@, <<tget[t], tkey[t]>>)]
    /\ tpc' = [tpc EXCEPT ![t] = "idle"]
    /\ UNCHANGED <<table, codec, loads, tget, tkey, tcalls>>

\* ------------------------------------------------------------------------
\* crypt.py: verify_signature on arbitrary arguments
\* ------------------------------------------------------------------------
\* Keys, messages and signatures a caller may pass: the key of the system,
\* another key, and None; messages of both pipelines and values that are
\* no bytes; signatures of either signer over either message, bytes of the
\* right and of a wrong length that are no signature, and no bytes.
VerifyKeys == {"ed25519_public", "stranger_public", "None"}
VerifyMessages ==
    {_cbor(model_dump(GoodDict)), Serialize(DictInput(<< <<"a", IntV(1)>> >>)), IntV(1), Missing}
VerifySignatures ==
    {sign_message(k, m) : k \in Signers, m \in {m \in VerifyMessages : IsBytes(m)}}
      \cup {BadSig(_cbor(model_dump(GoodDict)))}
      \cup {BytesV(n) : n \in {0, SigLen - 1, SigLen, SigLen + 1}}
      \cup {StrV("sig"), IntV(7), Missing}

VerifyInput(pub, message, sig) ==
    [kind |-> "verify", pub |-> pub, message |-> message, sig |-> sig]

\* verify_signature(public_key, message, signature), called directly.
VerifyCall ==
    /\ data.kind = "verify"
    /\ pc = "idle"
    /\ ret = NoRet
    /\ ret' = [fn |-> "verify_signature", src |-> 0, how |-> "call",
               res |-> VerifySignatureCall(data.pub, data.message, data.sig)]
    /\ UNCHANGED <<now, data, pc, ops, work, outs, wire, got, flips, rng,
                   cache, loads, threads, table>>

\* ------------------------------------------------------------------------
\* The message bytes of two records (pack_seal, secure_pack steps 1 and 2)
\* ------------------------------------------------------------------------
\* Largest value in a caller's dict.
MaxValue == 2

\* The dicts over the keys "a" and "b", in each insertion order.
CanonDicts ==
    {<< <<k, IntV(v)>> >> : k \in {"a", "b"}, v \in 1..MaxValue}
      \cup {<< <<"a", IntV(v)>>, <<"b", IntV(w)>> >> : v, w \in 1..MaxValue}
      \cup {<< <<"b", IntV(w)>>, <<"a", IntV(v)>> >> : v, w \in 1..MaxValue}

\* The keyword arguments of Seal(...), by alias, in declaration order and
\* in the reverse order.
Reverse(seq) == [i \in 1..Len(seq) |-> seq[Len(seq) + 1 - i]]
SealKwargs ==
    {ModelPairs(MkSeal(a, ts)) : a \in {TenthsPerMinor, MaxAmount}, ts \in {0, MaxTs}}
      \cup {Reverse(ModelPairs(MkSeal(a, ts))) :
               a \in {TenthsPerMinor, MaxAmount}, ts \in {0, MaxTs}}

\* Seal(**kw): the model holds its fields by name, whatever the order of
\* the arguments.
Arg(kw, name) == (CHOOSE p \in {kw[i] : i \in 1..Len(kw)} : p[1] = name)[2]
SealOf(kw) ==
    [amount |-> Arg(kw, "amount").i,
     timestamp |-> Arg(kw, "timestamp").i,
     transaction_reference |-> Arg(kw, "transactionReference").s,
     sender_account_number |-> Arg(kw, "senderAccountNumber").s,
     sender_name |-> Arg(kw, "senderName").s,
     sender_bank_code |-> Arg(kw, "senderBankCode").s,
     receiver_account_number |-> Arg(kw, "receiverAccountNumber").s,
     receiver_name |-> Arg(kw, "receiverName").s,
     receiver_bank_code |-> Arg(kw, "receiverBankCode").s]

\* Whether two inputs are the same record: the same keys with the same
\* values (Python's == on dicts and on models).
SameRecord(fn, x, y) ==
    IF fn = "secure_pack_dict"
    THEN {x[i] : i \in 1..Len(x)} = {y[i] : i \in 1..Len(y)}
    ELSE SealOf(x) = SealOf(y)

\* The message bytes the pack function signs for the input x.
MessageOf(fn, x) ==
    CASE fn = "pack_seal" -> _cbor(model_dump(seal_to_cseal(SealOf(x))))
      [] fn = "secure_pack_model" -> Serialize(ModelInput(SealOf(x)))
      [] fn = "secure_pack_dict" -> Serialize(DictInput(x))

RecordsInput(fn, x, y) == [kind |-> "records", fn |-> fn, first |-> x, second |-> y]

\* Both inputs are serialized and signed, as pack_seal (lines 106-110) or
\* secure_pack (steps 1 and 2) do it.
EncodeBoth ==
    /\ data.kind = "records"
    /\ pc = "idle"
    /\ ret = NoRet
    /\ CallGetter("ed25519_private")
    /\ LET m1 == MessageOf(data.fn, data.first)
           m2 == MessageOf(data.fn, data.second)
       IN  ret' = [fn |-> "encode", src |-> 0, how |-> "call",
                   res |-> Ok([msg1 |-> m1, sig1 |-> sign_message("ed25519_private", m1),
                               msg2 |-> m2, sig2 |-> sign_message("ed25519_private", m2)])]
    /\ UNCHANGED <<now, data, pc, ops, work, outs, wire, got, flips, rng, threads, table>>

\* ------------------------------------------------------------------------
\* render.py: render_with_positions
\* ------------------------------------------------------------------------
\* Strings are sequences of characters; "S" and "E" stand for the two
\* zero-width markers.
ZERO_WIDTH_START == "S"
ZERO_WIDTH_END == "E"

\* Longest template, in items.
MaxTemplateLen == 3

RenderKeys == {"k1", "k2"}
RenderValues == {<<>>, <<"a">>, <<"a", "b">>}

\* A template is a sequence of literal characters and {{ name }} items.
TemplateItems ==
    {[kind |-> "lit", s |-> "a"]} \cup {[kind |-> "var", s |-> k] : k \in RenderKeys}
Templates ==
    UNION {[1..n -> TemplateItems] : n \in 0..MaxTemplateLen}

\* 1) every value as a string, wrapped with the markers
tracked_context(context) ==
    [k \in DOMAIN context |-> <<ZERO_WIDTH_START>> \o context[k] \o <<ZERO_WIDTH_END>>]

\* 2) Template(template_text).render(**tracked_context)
RECURSIVE TemplateRender(_, _)
TemplateRender(template, tracked) ==
    IF template = <<>> THEN <<>>
    ELSE LET h == Head(template)
         IN  (IF h.kind = "lit" THEN <<h.s>>
              ELSE IF h.s \in DOMAIN tracked THEN tracked[h.s] ELSE <<>>)
               \o TemplateRender(Tail(template), tracked)

IsMarker(ch) == ch = ZERO_WIDTH_START \/ ch = ZERO_WIDTH_END

\* 3) marked index -> clean index (from 0), or None (Missing) for a marker
index_map(marked) ==
    [i \in 1..Len(marked) |->
        IF IsMarker(marked[i]) THEN Missing
        ELSE IntV(Cardinality({j \in 1..(i - 1) : ~IsMarker(marked[j])}))]

\* re.finditer(pattern, marked): the non-overlapping matches from the left,
\* each by the position (from 1) of its first character.
RECURSIVE finditer(_, _, _)
finditer(pattern, marked, i) ==
    IF i + Len(pattern) - 1 > Len(marked) THEN <<>>
    ELSE IF SubSeq(marked, i, i + Len(pattern) - 1) = pattern
         THEN <<i>> \o finditer(pattern, marked, i + Len(pattern))
         ELSE finditer(pattern, marked, i + 1)

\* The body of the loop over the matches, for the match that starts at
\* position p (from 1) of a value of n characters: m.start(1) is p and
\* m.end(1) is p + n counted from 0.  index_map[gend - 1] + 1 is evaluated
\* before the test for None.
MapSpan(im, p, n) ==
    LET mapped_start == im[p + 1]
        last == im[p + n]
    IN  IF last = Missing THEN [kind |-> "TypeError", start |-> 0, end |-> 0]
        ELSE IF mapped_start = Missing THEN [kind |-> "continue", start |-> 0, end |-> 0]
        ELSE [kind |-> "span", start |-> mapped_start.i, end |-> last.i + 1]

\* 4) the spans of every occurrence of the wrapped value s
KeySpans(marked, s) ==
    LET ms == finditer(<<ZERO_WIDTH_START>> \o s \o <<ZERO_WIDTH_END>>, marked, 1)
    IN  [m \in 1..Len(ms) |-> MapSpan(index_map(marked), ms[m], Len(s))]

\* 5) the markers stripped
Clean(marked) == SelectSeq(marked, LAMBDA ch : ~IsMarker(ch))

\* positions holds a list for every key; a key that setdefault never
\* touched has the empty list.
render_with_positions(template, context) ==
    LET marked == TemplateRender(template, tracked_context(context))
        spans == [k \in DOMAIN context |-> KeySpans(marked, context[k])]
    IN  IF \E k \in DOMAIN context : \E m \in 1..Len(spans[k]) :
               spans[k][m].kind = "TypeError"
        THEN Err("TypeError")
        ELSE Ok([clean |-> Clean(marked),
                 positions |->
                    [k \in DOMAIN context |->
                        SelectSeq(spans[k], LAMBDA sp : sp.kind = "span")]])

RenderInput(template, context) ==
    [kind |-> "template", template |-> template, context |-> context]

RenderCall ==
    /\ data.kind = "template"
    /\ pc = "idle"
    /\ ret = NoRet
    /\ ret' = [fn |-> "render_with_positions", src |-> 0, how |-> "call",
               res |-> render_with_positions(data.template, data.context)]
    /\ UNCHANGED <<now, data, pc, ops, work, outs, wire, got, flips, rng, cache, loads, threads, table>>

\* ------------------------------------------------------------------------
\* repo.py, db.py: FintechRepository over the fintech table
\* ------------------------------------------------------------------------
\* Largest row id the database hands out.
MaxId == 4

ApiKeys == {"sgnt_a", "sgnt_b"}
FintechNames == {"acme", "zenith"}

\* The dicts handed to create_fintech and to update_fintech.
CreateDicts == {[api_key |-> k, name |-> n] : k \in ApiKeys, n \in FintechNames}
UpdateDicts == {[api_key |-> k] : k \in ApiKeys} \cup {[name |-> n] : n \in FintechNames}

\* id is the table's integer primary key: the database assigns the row id
\* after the largest one in the table.
NextId ==
    IF table = {} THEN 1
    ELSE (CHOOSE i \in {r.id : r \in table} : \A r \in table : r.id <= i) + 1

\* select(Fintech).where(Fintech.api_key == api_key); api_key is indexed,
\* and not declared unique.
Select(api_key) == {r \in table : r.api_key = api_key}

\* result.scalar_one_or_none(): the row, None, or MultipleResultsFound.
scalar_one_or_none(rows) ==
    IF Cardinality(rows) > 1 THEN Err("MultipleResultsFound")
    ELSE IF rows = {} THEN Ok(Missing)
    ELSE Ok(CHOOSE r \in rows : TRUE)

RepoReturn(fn, res) ==
    /\ data.kind = "repo"
    /\ pc = "idle"
    /\ ret' = [fn |-> fn, src |-> 0, how |-> "call", res |-> res]
    /\ UNCHANGED <<now, data, pc, ops, work, outs, wire, got, flips, rng, cache, loads, threads>>

get_fintech ==
    \E k \in ApiKeys :
        /\ RepoReturn("get_fintech", scalar_one_or_none(Select(k)))
        /\ UNCHANGED table

create_fintech ==
    \E d \in CreateDicts :
        /\ NextId <= MaxId
        /\ LET fintech == [id |-> NextId, api_key |-> d.api_key, name |-> d.name]
           IN  /\ table' = table \cup {fintech}
               /\ RepoReturn("create_fintech", Ok(fintech))

update_fintech ==
    \E k \in ApiKeys, d \in UpdateDicts :
        LET found == scalar_one_or_none(Select(k))
        IN  IF found.kind = "err" \/ found = Ok(Missing)
            THEN /\ RepoReturn("update_fintech", found)
                 /\ UNCHANGED table
            ELSE LET old == found.val[1]
                     fintech == [f \in DOMAIN old |->
                                    IF f \in DOMAIN d THEN d[f] ELSE old[f]]
                 IN  /\ table' = (table \ {old}) \cup {fintech}
                     /\ RepoReturn("update_fintech", Ok(fintech))

delete_fintech ==
    \E k \in ApiKeys :
        LET found == scalar_one_or_none(Select(k))
        IN  IF found.kind = "err"
            THEN /\ RepoReturn("delete_fintech", found)
                 /\ UNCHANGED table
            ELSE IF found = Ok(Missing)
            THEN /\ RepoReturn("delete_fintech", Ok(FALSE))
                 /\ UNCHANGED table
            ELSE /\ table' = table \ {found.val[1]}
                 /\ RepoReturn("delete_fintech", Ok(TRUE))

\* ------------------------------------------------------------------------
\* The clock
\* ------------------------------------------------------------------------
Tick ==
    /\ pc = "idle"
    /\ now < MaxNow
    /\ now' = now + 1
    /\ UNCHANGED <<data, pc, ops, work, ret, outs, wire, got, flips, rng, cache, loads, threads, table>>

\* ------------------------------------------------------------------------
\* Specifications
\* ------------------------------------------------------------------------
\* What a caller can hold at instant `clock`.
Inputs(clock) ==
    {ModelInput(s) : s \in ValidSeals(clock)}
      \cup {DictInput(ps) : ps \in SmallDicts}
      \cup {ReceivedInput("unpack_seal", b) : b \in ReceivedSealBlobs}
      \cup {ReceivedInput("secure_unpack", b) : b \in ReceivedSecureBlobs}

\* Nothing has run yet.
InitState ==
    /\ now = 0
    /\ pc = "idle"
    /\ ops = <<>>
    /\ work = NoWork
    /\ ret = NoRet
    /\ outs = <<>>
    /\ wire = NoWire
    /\ got = [i \in 1..MaxPacks |-> NoResult]
    /\ flips = 0
    /\ rng = 0
    /\ cache = [g \in Getters |-> 0]
    /\ loads = [g \in Getters |-> 0]
    /\ tpc = [t \in Threads |-> "idle"]
    /\ tget = [t \in Threads |-> "none"]
    /\ tkey = [t \in Threads |-> 0]
    /\ tret = [t \in Threads |-> <<>>]
    /\ tcalls = [t \in Threads |-> 0]
    /\ table = {}

Init == data \in Inputs(0) /\ InitState

PackSteps ==
    \/ PackSealStart
    \/ PackSealToCSeal
    \/ PackSealCbor
    \/ PackSealSign
    \/ PackSealEnvelope
    \/ PackSealCompress
    \/ SecurePackStart
    \/ SecurePackSerialize
    \/ SecurePackSign
    \/ SecurePackBundle
    \/ SecurePackEncrypt
    \/ SecurePackCompress
    \/ SecurePackEncode

UnpackSteps ==
    \/ UnpackSealDecompress
    \/ UnpackSealEnvelope
    \/ UnpackSealVerify
    \/ UnpackSealDecode
    \/ UnpackSealValidate
    \/ UnpackSealToSeal
    \/ SecureUnpackDecode85
    \/ SecureUnpackDecompress
    \/ SecureUnpackDecrypt
    \/ SecureUnpackEnvelope
    \/ SecureUnpackVerify
    \/ SecureUnpackLoads

\* The codec at work: payloads are unpacked as they were packed or received.
Next ==
    \/ Tick
    \/ PackSteps
    \/ UnpackSealStart
    \/ SecureUnpackStart
    \/ UnpackSealReceived
    \/ SecureUnpackReceived
    \/ UnpackSteps

Spec == Init /\ [][Next]_vars

\* The codec on a channel that changes one byte of a payload.
NextFlip ==
    \/ Tick
    \/ PackSteps
    \/ UnpackSealFlipped
    \/ SecureUnpackFlipped
    \/ UnpackSteps

\* The payloads that travel are those of one Seal or of one dict.
InitFlip ==
    /\ Init
    /\ data \in {ModelInput(MkSeal(MaxAmount, MaxTs))}
                  \cup {DictInput(ps) : ps \in SmallDicts}

SpecFlip == InitFlip /\ [][NextFlip]_vars

\* The key getters under concurrent callers.
NextKeys ==
    \/ \E t \in Threads, g \in Getters : KeyCall(t, g)
    \/ \E t \in Threads : KeyLoad(t)
    \/ \E t \in Threads : KeyStore(t)

InitKeys == Init /\ data = DictInput(<< <<"a", IntV(1)>> >>)

SpecKeys == InitKeys /\ [][NextKeys]_vars

\* ------------------------------------------------------------------------
\* Properties
\* ------------------------------------------------------------------------

\* C1. Round trip: unpack_seal of what pack_seal made of a valid Seal s
\* returns a Seal with the timestamp, transaction reference, account
\* numbers, bank codes and names of s, and an amount within one minor
\* currency unit of the amount of s.
RoundTrip ==
    \A i \in 1..Len(outs) :
        (outs[i].fn = "pack_seal" /\ got[i] # NoResult) =>
            /\ got[i].kind = "ok"
            /\ LET s == outs[i].input.obj
                   r == got[i].val[1]
               IN  /\ r.timestamp = s.timestamp
                   /\ r.transaction_reference = s.transaction_reference
                   /\ r.sender_account_number = s.sender_account_number
                   /\ r.receiver_account_number = s.receiver_account_number
                   /\ r.sender_bank_code = s.sender_bank_code
                   /\ r.receiver_bank_code = s.receiver_bank_code
                   /\ r.sender_name = s.sender_name
                   /\ r.receiver_name = s.receiver_name
                   /\ r.amount - s.amount <= TenthsPerMinor
                   /\ s.amount - r.amount <= TenthsPerMinor

\* A round trip that returned a Seal with another timestamp.
RoundTripMovedTimestamp ==
    \E i \in 1..Len(outs) :
        /\ outs[i].fn = "pack_seal"
        /\ got[i].kind = "ok"
        /\ got[i].val[1].timestamp # outs[i].input.obj.timestamp

\* C2. Tamper detection: unpack of a pack output with one byte changed
\* fails; it never returns a record.
TamperDetected ==
    (ret.how = "flip" /\ pc = "idle") => ret.res.kind = "err"

\* unpack_seal returned a record for a payload with one byte changed.
TamperedSealAccepted ==
    /\ ret.how = "flip"
    /\ ret.fn = "unpack_seal"
    /\ pc = "idle"
    /\ ret.res.kind = "ok"
    /\ ret.res.val[1].transaction_reference
          = outs[ret.src].input.obj.transaction_reference

\* C3. In every pack execution compression runs before encryption:
\* encryption has a compression before it and none after it.
CompressBeforeEncrypt ==
    ret.fn \in PackFns =>
        \A i \in 1..Len(ops) :
            ops[i].op = "encrypt" =>
                /\ \E j \in 1..(i - 1) : ops[j].op = "compress"
                /\ \A j \in (i + 1)..Len(ops) : ops[j].op # "compress"

\* A secure_pack execution that compressed the ciphertext.
CiphertextCompressed ==
    /\ ret.fn = "secure_pack"
    /\ \E i, j \in 1..Len(ops) :
          i < j /\ ops[i] = [op |-> "encrypt", ok |-> TRUE]
                /\ ops[j] = [op |-> "compress", ok |-> TRUE]

\* C4. Every stage of unpack is a gate: once a stage has failed the call
\* is over, no stage ran after the failed one, the call failed, and it
\* returned no record; a call that returned a record passed every stage.
StageFailureAborts ==
    /\ (ret.fn \in UnpackFns /\ \E i \in 1..Len(ops) : ~ops[i].ok) =>
          /\ pc = "idle"
          /\ ~ops[Len(ops)].ok
          /\ \A i \in 1..(Len(ops) - 1) : ops[i].ok
          /\ ret.res.kind = "err"
          /\ ret.res.val = <<>>
          /\ ret.how = "asis" => got[ret.src] = ret.res
    /\ (ret.fn \in UnpackFns /\ ret.res.kind = "ok") =>
          \A i \in 1..Len(ops) : ops[i].ok

\* secure_unpack stopped at a decryption that failed, after two stages
\* that passed.
DecryptFailureAborted ==
    /\ ret.fn = "secure_unpack"
    /\ pc = "idle"
    /\ Len(ops) = 3
    /\ ops[3] = [op |-> "decrypt", ok |-> FALSE]
    /\ ret.res.kind = "err"

\* C5. In unpack, verification of the signature precedes the decoding of
\* msg: msg is decoded right after a verification that returned true, a
\* verification recorded as true is one verify_signature accepts, and when
\* it returned false the call failed there, msg undecoded.
VerifyBeforeDecode ==
    ret.fn \in UnpackFns =>
        \A i \in 1..Len(ops) :
            /\ ops[i].op = "decode_msg" =>
                  (i > 1 /\ ops[i - 1] = [op |-> "verify", ok |-> TRUE])
            /\ ops[i] = [op |-> "verify", ok |-> TRUE] =>
                  verify_signature("ed25519_public", work.msg, work.sig)
            /\ ops[i] = [op |-> "verify", ok |-> FALSE] =>
                  /\ i = Len(ops)
                  /\ pc = "idle"
                  /\ ret.res.kind = "err"
                  /\ work.cseal = Missing

\* unpack_seal refused a stranger's signature over a message that would
\* have decoded.
ForgedMessageUndecoded ==
    /\ ret.fn = "unpack_seal"
    /\ pc = "idle"
    /\ Len(ops) = 3
    /\ ops[3] = [op |-> "verify", ok |-> FALSE]
    /\ CborOk(work.msg)
    /\ CSealValid(_uncbor(work.msg))
    /\ work.cseal = Missing

\* C6. Two pack calls on the same input give different bytes, and unpack
\* of both gives the same record.
PacksDiffer ==
    \A i, j \in 1..Len(outs) :
        (i < j /\ outs[i].fn = outs[j].fn /\ outs[i].input = outs[j].input) =>
            /\ outs[i].blob # outs[j].blob
            /\ (got[i] # NoResult /\ got[j] # NoResult) =>
                  (got[i].kind = "ok" /\ got[i] = got[j])

\* pack_seal gave the same bytes twice.
SameBytesTwice ==
    \E i, j \in 1..Len(outs) :
        /\ i < j
        /\ outs[i].fn = "pack_seal"
        /\ outs[j].fn = "pack_seal"
        /\ outs[i].blob = outs[j].blob

\* C7. Version rejection: unpack of a container that carries a version
\* other than the recognized one fails, and fails before any decryption
\* or signature verification.
VersionRejected ==
    (/\ data.kind = "payload"
     /\ ret.how = "foreign"
     /\ pc = "idle"
     /\ (IF data.fn = "unpack_seal"
         THEN data.blob.data.ver
         ELSE data.blob.z.data.plain.ver) # 0) =>
        /\ ret.res.kind = "err"
        /\ \A i \in 1..Len(ops) : ops[i].op \notin {"decrypt", "verify"}

\* secure_unpack returned the record of an envelope of another version.
UnknownVersionAccepted ==
    /\ data.kind = "payload"
    /\ data.fn = "secure_unpack"
    /\ data.blob.z.data.plain.ver # 0
    /\ ret.how = "foreign"
    /\ pc = "idle"
    /\ ret.res.kind = "ok"

\* C8. The key cache is written once: each getter loads its key from the
\* PEM file at most once, whatever the interleaving of the callers, and
\* every call returns the cached key.
LoadedOnce ==
    \A g \in Getters :
        /\ loads[g] <= 1
        /\ \A t \in Threads : \A k \in 1..Len(tret[t]) :
              tret[t][k][1] = g => tret[t][k][2] = cache[g]

\* Two callers each loaded the key.
LoadedTwice ==
    \E g \in Getters : \E t \in Threads :
        /\ loads[g] = 2
        /\ cache[g] # 0
        /\ tpc[t] = "idle"
        /\ Len(tret[t]) > 0
        /\ tret[t][Len(tret[t])][1] = g
        /\ tret[t][Len(tret[t])][2] # cache[g]

\* C9. The codec does not check the timestamp again: unpack_seal of what
\* pack_seal made of a valid Seal succeeds however late it is called.
UnpackAtAnyTime ==
    \A i \in 1..Len(outs) :
        (outs[i].fn = "pack_seal" /\ got[i] # NoResult) => got[i].kind = "ok"

\* unpack_seal refused its own payload once the timestamp was past.
UnpackRefusedLater ==
    \E i \in 1..Len(outs) :
        /\ outs[i].fn = "pack_seal"
        /\ got[i] = Err("ValidationError")
        /\ SealFieldsValid(cseal_to_seal(seal_to_cseal(outs[i].input.obj)))
        /\ cseal_to_seal(seal_to_cseal(outs[i].input.obj)).timestamp < now

WrongKeyRejected ==
    (/\ data.kind = "payload"
     /\ data.fn = "secure_unpack"
     /\ ret.how = "foreign"
     /\ pc = "idle"
     /\ B85Ok(data.blob)
     /\ DecompressOk(data.blob.z)
     /\ data.blob.z.data.enc = "oaep"
     /\ PrivateOf(data.blob.z.data.to) # "rsa_private") =>
        /\ ret.res.kind = "err"
        /\ ExcClass(ret.res.err)
              \notin {ExcClass("ValueError: Signature verification failed"),
                      ExcClass("ValueError"), "Exception"}

\* secure_unpack met a ciphertext made for another key and raised the
\* ValueError of the library.
WrongKeyValueError ==
    /\ data.kind = "payload"
    /\ data.fn = "secure_unpack"
    /\ ret.how = "foreign"
    /\ pc = "idle"
    /\ data.blob.z.data.enc = "oaep"
    /\ data.blob.z.data.to = "other_public"
    /\ ops[Len(ops)] = [op |-> "decrypt", ok |-> FALSE]
    /\ ret.res = Err("ValueError: Decryption failed")

\* verify_signature alone, on every choice of arguments.
InitVerify ==
    /\ InitState
    /\ data \in {VerifyInput(p, m, s) :
                    p \in VerifyKeys, m \in VerifyMessages, s \in VerifySignatures}

NextVerify == VerifyCall

SpecVerify == InitVerify /\ [][NextVerify]_vars

\* C12. verify never throws: for every key, message and signature value,
\* values of a wrong length or that are no bytes included, verify_signature
\* returns a Boolean, and it returns TRUE exactly when the signature is the
\* one the matching private key makes of the message.
VerifyNeverThrows ==
    (data.kind = "verify" /\ ret.fn = "verify_signature") =>
        /\ ret.res.kind = "ok"
        /\ ret.res.val[1] \in BOOLEAN
        /\ ret.res.val[1] =
              (\E k \in Signers :
                  /\ data.pub = PublicOf(k)
                  /\ data.sig = sign_message(k, data.message))

\* verify_signature returned False for a signature that is no bytes.
NonBytesSignatureIsFalse ==
    /\ data.kind = "verify"
    /\ data.pub = "ed25519_public"
    /\ data.sig = IntV(7)
    /\ IsBytes(data.message)
    /\ ret.fn = "verify_signature"
    /\ ret.res = Ok(FALSE)

\* C14. Each pack call encrypts under a key of its own: across any
\* sequence of secure_pack calls no encryption key is used in more than
\* one call.
FreshKeyPerPack ==
    \A i, j \in 1..Len(outs) :
        (i < j /\ outs[i].fn = "secure_pack" /\ outs[j].fn = "secure_pack") =>
            outs[i].blob.z.data.to # outs[j].blob.z.data.to

\* Two secure_pack calls encrypted their envelopes under the one RSA public
\* key, with nothing but the OAEP padding's randomness between them.
SameKeyTwoPacks ==
    \E i, j \in 1..Len(outs) :
        /\ i < j
        /\ outs[i].fn = "secure_pack"
        /\ outs[j].fn = "secure_pack"
        /\ outs[i].blob.z.data.enc = "oaep"
        /\ outs[i].blob.z.data.to = "rsa_public"
        /\ outs[j].blob.z.data.to = "rsa_public"
        /\ outs[i].blob.z.data.seed # outs[j].blob.z.data.seed

\* C15. pack_seal is total on valid Seals: every pack_seal call on a Seal
\* that satisfies the Seal invariants, however small its positive amount,
\* passes CSeal's validation and returns bytes.
PackSealTotal ==
    (/\ ret.fn = "pack_seal"
     /\ pc = "idle"
     /\ ret.res # NoResult
     /\ SealFieldsValid(data.obj)) =>
        /\ ret.res.kind = "ok"
        /\ \A i \in 1..Len(ops) : ops[i].ok

\* pack_seal raised on a Seal whose positive amount rounds to zero minor
\* units.
SmallAmountRefused ==
    /\ ret.fn = "pack_seal"
    /\ pc = "idle"
    /\ SealFieldsValid(data.obj)
    /\ data.obj.amount > 0
    /\ 2 * data.obj.amount <= TenthsPerMinor
    /\ seal_to_cseal(data.obj).x = IntV(0)
    /\ ret.res = Err("ValidationError")
    /\ ops = <<[op |-> "to_cseal", ok |-> FALSE]>>

\* C18. secure_pack succeeds for every valid Seal model: the JSON envelope
\* of the base85 message and the base85 signature fits the plaintext
\* capacity of one RSA-OAEP encryption, so the encryption step never fails
\* on size.
SecurePackFitsSeal ==
    (/\ ret.fn = "secure_pack"
     /\ data.kind = "model"
     /\ SealFieldsValid(data.obj)) =>
        /\ \A i \in 1..Len(ops) : ops[i].op = "encrypt" => ops[i].ok
        /\ (pc = "idle" /\ ret.res # NoResult) => ret.res.kind = "ok"

\* secure_pack raised at the encryption step on a valid Seal, whose
\* envelope is longer than one RSA-OAEP block takes.
SealEnvelopeTooLong ==
    /\ ret.fn = "secure_pack"
    /\ data.kind = "model"
    /\ SealFieldsValid(data.obj)
    /\ pc = "idle"
    /\ work.inner.len > OaepCapacity
    /\ ops[Len(ops)] = [op |-> "encrypt", ok |-> FALSE]
    /\ ret.res = Err("ValueError: Encryption failed")

\* The message bytes of two records, for each pack function.
InitCanon ==
    /\ InitState
    /\ data \in {RecordsInput("secure_pack_dict", x, y) : x, y \in CanonDicts}
                  \cup {RecordsInput(fn, x, y) :
                           fn \in {"pack_seal", "secure_pack_model"},
                           x, y \in SealKwargs}

NextCanon == EncodeBoth

SpecCanon == InitCanon /\ [][NextCanon]_vars

\* C13. Canonical encoding is deterministic: two records with the same
\* fields and the same values, in whatever order the fields were supplied,
\* give the same message bytes and the same signature, in pack_seal and in
\* secure_pack.
CanonicalBytes ==
    (/\ data.kind = "records"
     /\ ret.fn = "encode"
     /\ SameRecord(data.fn, data.first, data.second)) =>
        /\ ret.res.val[1].msg1 = ret.res.val[1].msg2
        /\ ret.res.val[1].sig1 = ret.res.val[1].sig2

\* secure_pack signed other bytes for the same dict in another order.
SameDictOtherBytes ==
    /\ data.kind = "records"
    /\ data.fn = "secure_pack_dict"
    /\ ret.fn = "encode"
    /\ data.first # data.second
    /\ SameRecord(data.fn, data.first, data.second)
    /\ ret.res.val[1].msg1 # ret.res.val[1].msg2
    /\ ret.res.val[1].sig1 # ret.res.val[1].sig2

\* render_with_positions on every small template and context.
InitRender ==
    /\ InitState
    /\ data \in {RenderInput(t, c) : t \in Templates, c \in [RenderKeys -> RenderValues]}

NextRender == RenderCall

SpecRender == InitRender /\ [][NextRender]_vars

\* C16. render_with_positions returns spans in the clean text: the call
\* does not fail, and for every context variable k and every (start, end)
\* in positions[k], clean_text[start:end] is str(value of k), the empty
\* string and values shared by two variables included.
SpansInCleanText ==
    (data.kind = "template" /\ ret.fn = "render_with_positions") =>
        /\ ret.res.kind = "ok"
        /\ \A k \in DOMAIN data.context :
              \A m \in 1..Len(ret.res.val[1].positions[k]) :
                 LET sp == ret.res.val[1].positions[k][m]
                 IN  SubSeq(ret.res.val[1].clean, sp.start + 1, sp.end) = data.context[k]

\* The call raised TypeError on a template that prints a variable whose
\* value is the empty string.
EmptyValueTypeError ==
    /\ data.kind = "template"
    /\ ret.fn = "render_with_positions"
    /\ \E i \in 1..Len(data.template) :
          /\ data.template[i].kind = "var"
          /\ data.context[data.template[i].s] = <<>>
    /\ ret.res = Err("TypeError")

\* The repository's calls, in any order, on an empty table.
InitRepo == InitState /\ data = [kind |-> "repo"]

NextRepo == get_fintech \/ create_fintech \/ update_fintech \/ delete_fintech

SpecRepo == InitRepo /\ [][NextRepo]_vars

\* C17. Lookups by api_key are well defined: after any sequence of
\* create_fintech, update_fintech and delete_fintech calls at most one
\* Fintech has a given api_key, and get_fintech, update_fintech and
\* delete_fintech return a Fintech or None or a boolean, never failing on
\* several matches.
LookupWellDefined ==
    data.kind = "repo" =>
        /\ \A k \in ApiKeys : Cardinality({r \in table : r.api_key = k}) <= 1
        /\ ret.fn \in {"get_fintech", "update_fintech", "delete_fintech"} =>
              ret.res.kind = "ok"

\* Two rows carry one api_key, and get_fintech on it raised
\* MultipleResultsFound.
TwoRowsOneKey ==
    /\ data.kind = "repo"
    /\ ret.fn = "get_fintech"
    /\ ret.res.kind = "err"
    /\ ret.res.err = "MultipleResultsFound"
    /\ \E r1, r2 \in table : r1.id # r2.id /\ r1.api_key = r2.api_key

=============================================================================
